---------------------------- MODULE Spec2Model ----------------------------
(***************************************************************************)
(* A model of src/main.py: the FastAPI facade over the GitHub issues API   *)
(* and its webhook ingestion pipeline (signature verification, event-type  *)
(* filter, delivery deduplication, recent-event listing).                  *)
(*                                                                         *)
(* FastAPI runs every "async def" handler as a coroutine on one event      *)
(* loop: a handler runs without interruption from one "await" to the next, *)
(* so each action below is one such run-to-suspension segment.             *)
(***************************************************************************)
EXTENDS Integers, Sequences, FiniteSets

VARIABLES
    events_store,   \* main.py:160  the process-wide list of event records
    handlers,       \* the webhook_handler coroutines in flight, one per slot
    events_resp,    \* the last answer of GET /events
    api             \* the issue-adapter request in flight

vars == <<events_store, handlers, events_resp, api>>

---------------------------------------------------------------------------
(* Values                                                                  *)

\* Python's None, for a header that was not sent (Header(None)) and for a
\* dict.get that finds no key.
None == "None"

\* X-Github-Delivery values are opaque and only ever compared for equality;
\* 0 stands for the absent header (None), the ids the senders assign are
\* 1..MaxDeliveryId.
NoDelivery == 0

\* The largest delivery id the senders use.
MaxDeliveryId == 1

Deliveries == NoDelivery..MaxDeliveryId

\* The webhook_handler coroutines that may be in flight at once: two, the
\* least number that can race for one delivery id.
Slots == {"h1", "h2"}

\* X-Github-Event values: the three of the allow-list, one other, and the
\* absent header.
Events == {"issues", "issue_comment", "ping", "push", None}

\* The allow-list with one event type too many.
SupportedEventsAndPush == {"issues", "issue_comment", "ping", "push"}

\* main.py:179  the allow-list of the event filter
SupportedEvents == {"issues", "issue_comment", "ping"}

\* Raw request bodies (the exact bytes that are signed and then parsed).
BodyNotJson   == "not json"
BodyArray     == "[1]"
BodyEmpty     == "{}"
BodyNullIssue == "{\"action\":\"closed\",\"issue\":null}"
BodyFull      == "{\"action\":\"opened\",\"issue\":{\"number\":7},\"repository\":{\"updated_at\":\"T1\"}}"

Bodies == {BodyNotJson, BodyArray, BodyEmpty, BodyNullIssue, BodyFull}

---------------------------------------------------------------------------
(* JSON values and request.json()                                          *)

JNull      == [t |-> "null", v |-> None]
JStr(s)    == [t |-> "str",  v |-> s]
JList      == [t |-> "list", v |-> None]
JDict(d)   == [t |-> "dict", v |-> d]
EmptyDict  == [k \in {} |-> JNull]

\* json.loads of the raw body, as request.json() does: ok = FALSE is the
\* JSONDecodeError.  Scalars are kept as their JSON text.
json_loads(raw) ==
    CASE raw = BodyNotJson   -> [ok |-> FALSE, value |-> JNull]
      [] raw = BodyArray     -> [ok |-> TRUE,  value |-> JList]
      [] raw = BodyEmpty     -> [ok |-> TRUE,  value |-> JDict(EmptyDict)]
      [] raw = BodyNullIssue -> [ok |-> TRUE,  value |->
                                   JDict([action |-> JStr("closed"),
                                          issue  |-> JNull])]
      [] raw = BodyFull      -> [ok |-> TRUE,  value |->
                                   JDict([action |-> JStr("opened"),
                                          issue  |-> JDict([number |-> JStr("7")]),
                                          repository |->
                                              JDict([updated_at |-> JStr("T1")])])]

\* dict.get(key, default)
PyGet(d, key, default) == IF key \in DOMAIN d THEN d[key] ELSE default

\* Only a dict has .get; on anything else the attribute lookup raises.
HasGet(j) == j.t = "dict"

---------------------------------------------------------------------------
(* verify_signature                                                        *)

\* main.py:15  the shared secret, as configured
WEBHOOK_SECRET == "s3cret"

\* hmac.new(key, body, hashlib.sha256).hexdigest(), tabulated for the
\* configured key over the bodies of the model.
HmacSha256Hex(key, body) ==
    CASE key = WEBHOOK_SECRET /\ body = BodyNotJson ->
            "4b182846723bcbd5b91346e9611da460827b94fdc3a46048f4fcc992ac54f99f"
      [] key = WEBHOOK_SECRET /\ body = BodyArray ->
            "454a52ae4be1df9f841aefd76bffef0462600726841a2449a4ddb668e7d414e0"
      [] key = WEBHOOK_SECRET /\ body = BodyEmpty ->
            "adbde1ce40c89c14215687d5d762a47df6dfaefcfad61e2e86718ffc8498571b"
      [] key = WEBHOOK_SECRET /\ body = BodyNullIssue ->
            "e9ddeb3f885336f87af2a5d4e1a4ec1f1a6fa3295b9500e099d0b693ec72613e"
      [] key = WEBHOOK_SECRET /\ body = BodyFull ->
            "dd4820e5f584f5ff7d38067b3d0f502545c8550b2249e395d1b46d9aaf79eb79"

\* f"sha256={computed}"
Sha256Header(computed) ==
    CASE computed = "4b182846723bcbd5b91346e9611da460827b94fdc3a46048f4fcc992ac54f99f" ->
            "sha256=4b182846723bcbd5b91346e9611da460827b94fdc3a46048f4fcc992ac54f99f"
      [] computed = "454a52ae4be1df9f841aefd76bffef0462600726841a2449a4ddb668e7d414e0" ->
            "sha256=454a52ae4be1df9f841aefd76bffef0462600726841a2449a4ddb668e7d414e0"
      [] computed = "adbde1ce40c89c14215687d5d762a47df6dfaefcfad61e2e86718ffc8498571b" ->
            "sha256=adbde1ce40c89c14215687d5d762a47df6dfaefcfad61e2e86718ffc8498571b"
      [] computed = "e9ddeb3f885336f87af2a5d4e1a4ec1f1a6fa3295b9500e099d0b693ec72613e" ->
            "sha256=e9ddeb3f885336f87af2a5d4e1a4ec1f1a6fa3295b9500e099d0b693ec72613e"
      [] computed = "dd4820e5f584f5ff7d38067b3d0f502545c8550b2249e395d1b46d9aaf79eb79" ->
            "sha256=dd4820e5f584f5ff7d38067b3d0f502545c8550b2249e395d1b46d9aaf79eb79"

\* What a sender holding the secret puts in X-Hub-Signature-256.
Sign(body) == Sha256Header(HmacSha256Hex(WEBHOOK_SECRET, body))

\* A header value with a byte above 0x7f (Starlette decodes headers as
\* latin-1, so the handler receives a non-ASCII str).
NonAsciiSignature == "sha256=é"

IsAscii(s) == s # NonAsciiSignature

\* X-Hub-Signature-256 values: absent, empty, non-ASCII, and the genuine
\* signature of each body (a forgery when sent with another body).
Signatures == {None, "", NonAsciiSignature} \cup {Sign(b) : b \in Bodies}

\* hmac.compare_digest(a, b) on two str: TypeError unless both are ASCII.
compare_digest(a, b) ==
    IF IsAscii(a) /\ IsAscii(b)
    THEN IF a = b THEN "True" ELSE "False"
    ELSE "TypeError"

\* main.py:162-166.  "True", "False", or "TypeError" when compare_digest
\* raises.
verify_signature(signature, body) ==
    IF signature = None \/ signature = ""
    THEN "False"
    ELSE compare_digest(Sha256Header(HmacSha256Hex(WEBHOOK_SECRET, body)),
                        signature)

---------------------------------------------------------------------------
(* webhook_handler                                                         *)

\* The check of line 183 looking at the most recent record only.
IsDuplicateOfLast(store, delivery) ==
    store # <<>> /\ store[Len(store)].id = delivery

\* main.py:183  any(e["id"] == x_github_delivery for e in events_store)
IsDuplicate(store, delivery) ==
    \E i \in DOMAIN store : store[i].id = delivery

\* main.py:186-192  the record built from the parsed payload; ok = FALSE is
\* the AttributeError of a .get on something that is not a dict.
event_record(delivery, event, payload) ==
    IF ~HasGet(payload)
    THEN [ok |-> FALSE, rec |-> None]
    ELSE LET action == PyGet(payload.v, "action", JNull)
             issue  == PyGet(payload.v, "issue", JDict(EmptyDict))
             repo   == PyGet(payload.v, "repository", JDict(EmptyDict))
         IN  IF ~HasGet(issue) \/ ~HasGet(repo)
             THEN [ok |-> FALSE, rec |-> None]
             ELSE [ok  |-> TRUE,
                   rec |-> [id           |-> delivery,
                            event        |-> event,
                            action       |-> action.v,
                            issue_number |-> PyGet(issue.v, "number", JNull).v,
                            timestamp    |-> PyGet(repo.v, "updated_at", JNull).v]]

\* The requests a client may send: every combination of the three headers
\* and the body.
Requests ==
    [sig : Signatures, event : Events, delivery : Deliveries, body : Bodies]

\* What a holder of the secret posts, and posts again on redelivery: a
\* correctly signed body with an event type of the allow-list.
SignedDeliveries ==
    {r \in Requests : /\ r.sig = Sign(r.body)
                      /\ r.event \in {"issues", "issue_comment", "ping"}
                      /\ r.body \in {BodyFull, BodyNullIssue}}

NoRequest == [sig |-> None, event |-> None, delivery |-> NoDelivery,
              body |-> BodyEmpty]

\* A coroutine: where it is suspended (pc), its arguments (req), and, once
\* it has answered, the status code and what the check of line 183 found
\* ("new": no record with the id, "dup": one found, "-": not reached).
Idle == [pc |-> "idle", req |-> NoRequest, status |-> 0, judged |-> "-"]

Answered(h, code, verdict) ==
    [h EXCEPT !.pc = "done", !.status = code, !.judged = verdict]

\* main.py:168-175  the route is entered and suspends in request.body().
Receive(s, r) ==
    /\ handlers[s].pc = "idle"
    /\ handlers' = [handlers EXCEPT ![s] = [Idle EXCEPT !.pc = "body", !.req = r]]
    /\ UNCHANGED <<events_store, events_resp, api>>

\* main.py:175-182  the body has arrived: verify the signature, filter the
\* event type, then suspend in request.json().  An exception that is not an
\* HTTPException is answered 500 by the server.
VerifyAndFilter(s) ==
    LET h == handlers[s]
        v == verify_signature(h.req.sig, h.req.body)
    IN  /\ h.pc = "body"
        /\ handlers' = [handlers EXCEPT ![s] =
              IF v = "TypeError" THEN Answered(h, 500, "-")
              ELSE IF v = "False" THEN Answered(h, 401, "-")
              ELSE IF h.req.event \notin SupportedEvents
                   THEN Answered(h, 400, "-")
              ELSE [h EXCEPT !.pc = "json"]]
        /\ UNCHANGED <<events_store, events_resp, api>>

\* main.py:182-195  request.json() has returned or raised; the check for the
\* delivery id, the construction of the record and the append follow with no
\* await between them.
RecordIfNew(s) ==
    LET h      == handlers[s]
        parsed == json_loads(h.req.body)
        built  == event_record(h.req.delivery, h.req.event, parsed.value)
    IN  /\ h.pc = "json"
        /\ IF ~parsed.ok
           THEN /\ handlers' = [handlers EXCEPT ![s] = Answered(h, 500, "-")]
                /\ UNCHANGED events_store
           ELSE IF IsDuplicate(events_store, h.req.delivery)
           THEN /\ handlers' = [handlers EXCEPT ![s] = Answered(h, 204, "dup")]
                /\ UNCHANGED events_store
           ELSE IF ~built.ok
           THEN /\ handlers' = [handlers EXCEPT ![s] = Answered(h, 500, "new")]
                /\ UNCHANGED events_store
           ELSE /\ handlers' = [handlers EXCEPT ![s] = Answered(h, 204, "new")]
                /\ events_store' = Append(events_store, built.rec)
        /\ UNCHANGED <<events_resp, api>>

\* The response has been sent and the coroutine is gone.
Close(s) ==
    /\ handlers[s].pc = "done"
    /\ handlers' = [handlers EXCEPT ![s] = Idle]
    /\ UNCHANGED <<events_store, events_resp, api>>

\* pydantic is not pinned by the repository; the two major versions read
\* IssueUpdate (main.py:31-34) differently, so the build is part of the
\* state: fixed when the process starts, never changed afterwards.
PydanticBuilds == {"v1", "v2"}

\* No adapter request in flight.
NoApi(build) ==
    [pydantic |-> build, pc |-> "idle", op |-> "-",
     title |-> "-", body |-> "-", state |-> "-", calls |-> 0,
     upstream |-> 0, text |-> "-", status |-> 0, detail |-> "-"]
NoEventsResp == [limit |-> 0, body |-> <<>>, asked |-> FALSE]

\* webhook_handler and get_events (main.py:168-199) take no pydantic model:
\* they behave alike under every build, and their specifications start from
\* an arbitrary one.
AnyBuild == CHOOSE b \in PydanticBuilds : TRUE

Init ==
    /\ events_store = <<>>
    /\ handlers = [s \in Slots |-> Idle]
    /\ events_resp = NoEventsResp
    /\ api = NoApi(AnyBuild)

\* Deliveries and redeliveries handled concurrently: the coroutines
\* interleave at their awaits.
Next ==
    \/ \E s \in Slots, r \in SignedDeliveries : Receive(s, r)
    \/ \E s \in Slots : VerifyAndFilter(s)
    \/ \E s \in Slots : RecordIfNew(s)
    \/ \E s \in Slots : Close(s)

Spec == Init /\ [][Next]_vars

\* Any requests at all, one at a time.
NextSerial ==
    \/ \E r \in Requests : Receive("h1", r)
    \/ VerifyAndFilter("h1")
    \/ RecordIfNew("h1")
    \/ Close("h1")

SpecSerial == Init /\ [][NextSerial]_vars

---------------------------------------------------------------------------
(* GET /events                                                             *)

\* The longest store and the largest |limit| tried.
MaxStore == 3
MaxLimit == 4

\* Python's seq[start:]: a negative start counts from the end, and either
\* way the start is clipped to 0..len(seq).
PySliceFrom(seq, start) ==
    LET n == Len(seq)
        k == IF start < 0
             THEN (IF n + start < 0 THEN 0 ELSE n + start)
             ELSE (IF start > n THEN n ELSE start)
    IN  SubSeq(seq, k + 1, n)

\* main.py:197-199  events_store[-limit:]
get_events(limit) == PySliceFrom(events_store, 0 - limit)

GetEvents(limit) ==
    /\ events_resp' = [limit |-> limit, body |-> get_events(limit),
                       asked |-> TRUE]
    /\ UNCHANGED <<events_store, handlers, api>>

\* The records webhook_handler stores for well-formed payloads.
StoredRecords ==
    {event_record(d, e, json_loads(b).value).rec :
        d \in 1..MaxStore, e \in {"issues", "ping"}, b \in {BodyFull}}

\* The stores webhook_handler can have built: at most MaxStore records, no
\* delivery id twice.
ReachableStores ==
    {st \in UNION {[1..n -> StoredRecords] : n \in 0..MaxStore} :
        \A i, j \in DOMAIN st : i # j => st[i].id # st[j].id}

InitEvents ==
    /\ events_store \in ReachableStores
    /\ handlers = [s \in Slots |-> Idle]
    /\ events_resp = NoEventsResp
    /\ api = NoApi(AnyBuild)

NextEvents == \E limit \in (0 - MaxLimit)..MaxLimit : GetEvents(limit)

SpecEvents == InitEvents /\ [][NextEvents]_vars

---------------------------------------------------------------------------
(* The issue adapter: create_issue, list_issues, get_issue, update_issue,  *)
(* add_comment                                                             *)

Ops == {"create_issue", "list_issues", "get_issue", "update_issue",
        "add_comment"}

\* A member of the PATCH body: Unset when the body has no such member, None
\* for an explicit null.
Unset == "<unset>"
TitleValues == {Unset, "t"}
BodyValues  == {Unset, "b"}
StateValues == {Unset, None, "open", "closed", "archived", "OPEN"}

\* main.py:31-34  IssueUpdate declares title, body and state as Optional[str]
\* with no default.  pydantic 1 gives such a field the default None, so any
\* of them may be left out; pydantic 2 makes it required (null allowed), and
\* FastAPI answers a body that lacks one with 422 before update_issue runs.
IssueUpdateValid(build, title, body, state) ==
    build = "v1" \/ Unset \notin {title, body, state}

\* What the upstream API may answer: status codes and raw bodies (r.text).
UpstreamStatuses == {200, 201, 301, 400, 401, 403, 404, 422, 500, 503}

TextNotJson   == "upstream body A"
TextEmpty     == "{}"
TextIssue     == "{\"number\":7,\"title\":\"t\",\"state\":\"open\",\"html_url\":\"h\",\"created_at\":\"T0\",\"updated_at\":\"T1\"}"
TextIssueList == "[{\"number\":7,\"title\":\"t\",\"state\":\"open\",\"html_url\":\"h\",\"created_at\":\"T0\",\"updated_at\":\"T1\"}]"
TextComment   == "{\"id\":1,\"body\":\"c\",\"user\":{\"login\":\"u\"},\"created_at\":\"T0\",\"html_url\":\"h\"}"

UpstreamTexts == {TextNotJson, TextEmpty, TextIssue, TextIssueList,
                  TextComment}

\* A JSON array with its elements.
JArray(elems) == [t |-> "list", v |-> elems]

IssueJson ==
    JDict([number |-> JStr("7"), title |-> JStr("t"), state |-> JStr("open"),
           html_url |-> JStr("h"), created_at |-> JStr("T0"),
           updated_at |-> JStr("T1")])

CommentJson ==
    JDict([id |-> JStr("1"), body |-> JStr("c"),
           user |-> JDict([login |-> JStr("u")]),
           created_at |-> JStr("T0"), html_url |-> JStr("h")])

\* r.json(): json.loads of r.text; ok = FALSE is the JSONDecodeError.
r_json(text) ==
    CASE text = TextNotJson   -> [ok |-> FALSE, value |-> JNull]
      [] text = TextEmpty     -> [ok |-> TRUE,  value |-> JDict(EmptyDict)]
      [] text = TextIssue     -> [ok |-> TRUE,  value |-> IssueJson]
      [] text = TextIssueList -> [ok |-> TRUE,  value |-> JArray(<<IssueJson>>)]
      [] text = TextComment   -> [ok |-> TRUE,  value |-> CommentJson]

\* data[k] for every k of keys: KeyError when a key is missing, TypeError
\* when data is not a dict.
CanIndex(data, keys) == data.t = "dict" /\ keys \subseteq DOMAIN data.v

\* main.py:56-65, 108-116  the members create_issue and get_issue index
\* ("body" and "labels" are read with .get)
IssueKeys == {"number", "title", "state", "html_url", "created_at",
              "updated_at"}

\* main.py:147-152  the members add_comment indexes
CommentKeys == {"id", "body", "user", "created_at", "html_url"}

\* main.py:86-94  for i in r.json(): an array yields its elements, an object
\* its keys (each a str, which cannot be indexed by "number").
IssuesViewable(data) ==
    \/ data.t = "dict" /\ DOMAIN data.v = {}
    \/ /\ data.t = "list"
       /\ \A k \in DOMAIN data.v : CanIndex(data.v[k], IssueKeys)

\* main.py:147-152  data["user"]["login"] with the other members
CommentViewable(data) ==
    /\ CanIndex(data, CommentKeys)
    /\ CanIndex(data.v["user"], {"login"})

\* The success branch of each operation (main.py:55-65, 86-94, 107-116, 133,
\* 146-152): TRUE when r.json() and the indexing of its result raise nothing.
SuccessBodyOk(op, text) ==
    LET j == r_json(text)
    IN  /\ j.ok
        /\ CASE op = "create_issue" -> CanIndex(j.value, IssueKeys)
             [] op = "list_issues"  -> IssuesViewable(j.value)
             [] op = "get_issue"    -> CanIndex(j.value, IssueKeys)
             [] op = "update_issue" -> TRUE
             [] op = "add_comment"  -> CommentViewable(j.value)

\* An exception that is not an HTTPException: the server answers 500.
ServerError == [status |-> 500, detail |-> "Internal Server Error"]

\* The local answer to a successful upstream response; the detail names the
\* JSON that is returned (update_issue returns r.json() as it is).
Success(op, code, text, view) ==
    IF SuccessBodyOk(op, text) THEN [status |-> code, detail |-> view]
    ELSE ServerError

\* main.py:128  "state" in update_payload and
\*              update_payload["state"] not in ["open", "closed"]
RejectsState(state) == state # Unset /\ state \notin {"open", "closed"}

\* main.py:54-70, 81-98, 106-121, 132-137, 145-157: the local answer to the
\* upstream response r (status code and r.text).
Translate(op, code, text) ==
    CASE op = "create_issue" ->
            IF code = 201 THEN Success(op, 201, text, "issue")
            ELSE IF code = 401 THEN [status |-> 401, detail |-> "Unauthorized"]
            ELSE [status |-> 400, detail |-> text]
      [] op = "list_issues" ->
            IF code = 200 THEN Success(op, 200, text, "issues")
            ELSE [status |-> code, detail |-> text]
      [] op = "get_issue" ->
            IF code = 200 THEN Success(op, 200, text, "issue")
            ELSE IF code = 404 THEN [status |-> 404, detail |-> "Issue not found"]
            ELSE [status |-> code, detail |-> text]
      [] op = "update_issue" ->
            IF code = 200 THEN Success(op, 200, text, "r.json()")
            ELSE IF code = 404 THEN [status |-> 404, detail |-> "Issue not found"]
            ELSE [status |-> code, detail |-> text]
      [] op = "add_comment" ->
            IF code = 201 THEN Success(op, 201, text, "comment")
            ELSE IF code = 404 THEN [status |-> 404, detail |-> "Issue not found"]
            ELSE [status |-> code, detail |-> text]

\* A request arrives and runs up to its first await.  update_issue
\* (main.py:124-131): FastAPI validates the body against IssueUpdate and
\* answers 422 itself when that fails; the handler then validates the state
\* and only after that awaits the upstream call.  The other operations
\* (main.py:45-53, 74-80, 102-105, 141-144), given a well-formed request,
\* call upstream at once.
ApiRequest(op, title, body, state) ==
    /\ api.pc = "idle"
    /\ op = "update_issue" \/ {title, body, state} = {Unset}
    /\ LET req == [api EXCEPT !.op = op, !.title = title, !.body = body,
                              !.state = state]
       IN  api' =
             IF op = "update_issue"
                /\ ~IssueUpdateValid(api.pydantic, title, body, state)
             THEN [req EXCEPT !.pc = "done", !.status = 422,
                              !.detail = "Field required"]
             ELSE IF op = "update_issue" /\ RejectsState(state)
             THEN [req EXCEPT !.pc = "done", !.status = 400,
                              !.detail = "state must be 'open' or 'closed'"]
             ELSE [req EXCEPT !.pc = "await", !.calls = 1]
    /\ UNCHANGED <<events_store, handlers, events_resp>>

\* The upstream response arrives and is mapped to the local answer.
ApiResponse(code, text) ==
    /\ api.pc = "await"
    /\ LET a == Translate(api.op, code, text)
       IN  api' = [api EXCEPT !.pc = "done", !.upstream = code, !.text = text,
                              !.status = a.status, !.detail = a.detail]
    /\ UNCHANGED <<events_store, handlers, events_resp>>

\* The response has been sent; the process and its build stay.
ApiClose ==
    /\ api.pc = "done"
    /\ api' = NoApi(api.pydantic)
    /\ UNCHANGED <<events_store, handlers, events_resp>>

NextApi ==
    \/ \E op \in Ops, title \in TitleValues, body \in BodyValues,
          state \in StateValues : ApiRequest(op, title, body, state)
    \/ \E code \in UpstreamStatuses, text \in UpstreamTexts :
           ApiResponse(code, text)
    \/ ApiClose

\* The process has started under either build and has served nothing yet.
InitApi ==
    /\ events_store = <<>>
    /\ handlers = [s \in Slots |-> Idle]
    /\ events_resp = NoEventsResp
    /\ api \in {NoApi(b) : b \in PydanticBuilds}

SpecApi == InitApi /\ [][NextApi]_vars

---------------------------------------------------------------------------
(* Properties                                                              *)

\* The allow-list as the interface documents it.
AllowList == {"issues", "issue_comment", "ping"}

\* The request carries the signature of its own body.
ValidlySigned(r) == r.sig = Sign(r.body)

\* How many stored records carry the delivery id d.
Stored(d) == Cardinality({i \in DOMAIN events_store : events_store[i].id = d})

\* The body is the text of a JSON object.
IsJsonObject(raw) == json_loads(raw).ok /\ json_loads(raw).value.t = "dict"

\* C1: in every reachable state, whatever requests POST /webhook has seen,
\* no two records of events_store carry the same delivery id.
C1_NoDuplicateDeliveryIds ==
    \A i, j \in DOMAIN events_store :
        i # j => events_store[i].id # events_store[j].id

\* C1 witness: the store holds two records and a further delivery with a
\* stored id has just been answered as a duplicate.
C1_Witness ==
    /\ Len(events_store) >= 2
    /\ handlers["h1"].pc = "done"
    /\ handlers["h1"].judged = "dup"
    /\ Stored(handlers["h1"].req.delivery) = 1

\* C2: of two validly signed, supported deliveries with the same delivery id
\* handled by coroutines that interleave at their awaits, never both are
\* judged new by the check for an existing id, and the store never holds
\* more than one record for the id.
C2_CheckAndAppendAtomic ==
    /\ \A s, t \in Slots :
          ( /\ s # t
            /\ handlers[s].pc = "done" /\ handlers[t].pc = "done"
            /\ handlers[s].req.delivery = handlers[t].req.delivery
            /\ ValidlySigned(handlers[s].req) /\ ValidlySigned(handlers[t].req)
            /\ handlers[s].req.event \in AllowList
            /\ handlers[t].req.event \in AllowList )
          => ~(handlers[s].judged = "new" /\ handlers[t].judged = "new")
    /\ \A d \in Deliveries : Stored(d) <= 1

\* C3: a request whose X-Hub-Signature-256 is absent, empty or different from
\* the signature of its body is answered 401 (never 400, whatever its event
\* type) and leaves events_store unchanged.
C3_BadSignatureIs401 ==
    [][ \A s \in Slots :
          ( /\ handlers[s].pc = "body"
            /\ handlers'[s].pc # "body"
            /\ ~ValidlySigned(handlers[s].req) )
          => ( /\ handlers'[s].pc = "done"
               /\ handlers'[s].status = 401
               /\ events_store' = events_store ) ]_vars

\* C4: a validly signed request whose X-Github-Event is outside the
\* allow-list (or absent) is answered 400 and leaves events_store unchanged,
\* whether or not its delivery id is stored.
C4_UnsupportedEventIs400 ==
    [][ \A s \in Slots :
          ( /\ handlers[s].pc = "body"
            /\ handlers'[s].pc # "body"
            /\ ValidlySigned(handlers[s].req)
            /\ handlers[s].req.event \notin AllowList )
          => ( /\ handlers'[s].pc = "done"
               /\ handlers'[s].status = 400
               /\ events_store' = events_store ) ]_vars

\* C4 witness: a validly signed request with an unsupported event type and a
\* delivery id that is already stored has been answered 400.
C4_Witness ==
    /\ handlers["h1"].pc = "done"
    /\ handlers["h1"].status = 400
    /\ ValidlySigned(handlers["h1"].req)
    /\ handlers["h1"].req.event \notin AllowList
    /\ Stored(handlers["h1"].req.delivery) = 1

\* C5: the same validly signed, supported delivery (same delivery id and
\* payload) submitted twice is answered 204 both times and leaves exactly one
\* record for its id.
C5_SameDeliveryTwice ==
    \A s, t \in Slots :
        ( /\ s # t
          /\ handlers[s].pc = "done" /\ handlers[t].pc = "done"
          /\ handlers[s].req = handlers[t].req
          /\ ValidlySigned(handlers[s].req)
          /\ handlers[s].req.event \in AllowList )
        => ( /\ handlers[s].status = 204 /\ handlers[t].status = 204
             /\ Stored(handlers[s].req.delivery) = 1 )

\* The last n elements of a sequence, 0 <= n <= Len(seq).
LastN(seq, n) == SubSeq(seq, Len(seq) - n + 1, Len(seq))

\* C6: for 0 <= n <= store size, GET /events?limit=n returns exactly the last
\* n records in arrival order; limit=0 returns the empty sequence.
C6_LimitWithinStore ==
    ( /\ events_resp.asked
      /\ events_resp.limit >= 0
      /\ events_resp.limit <= Len(events_store) )
    => events_resp.body = LastN(events_store, events_resp.limit)

\* C7: a limit above the store size returns the entire store, and a negative
\* limit is clamped to zero and returns the empty sequence.
C7_LimitOutOfRange ==
    events_resp.asked
    => ( /\ events_resp.limit > Len(events_store)
            => events_resp.body = events_store
         /\ events_resp.limit < 0 => events_resp.body = <<>> )

\* C8: for each of the five adapter operations, an upstream answer that is
\* not 2xx and neither 401 nor 404 reaches the caller with the upstream
\* status code and the raw upstream body as detail.
C8_UpstreamErrorPassedThrough ==
    ( /\ api.pc = "done"
      /\ api.calls = 1
      /\ ~(api.upstream >= 200 /\ api.upstream < 300)
      /\ api.upstream \notin {401, 404} )
    => (api.status = api.upstream /\ api.detail = api.text)

\* C9: PATCH /issues/{number} with a state other than 'open' or 'closed' is
\* answered 400 without an upstream call; with state 'open', 'closed' or not
\* supplied exactly one upstream PATCH is issued.
C9_StateValidatedBeforeUpstream ==
    (api.op = "update_issue" /\ api.pc \in {"await", "done"})
    => IF api.state \in {Unset, "open", "closed"}
       THEN api.calls = 1
       ELSE api.pc = "done" /\ api.status = 400 /\ api.calls = 0

\* C10: a validly signed, supported delivery whose id is not yet stored is
\* answered 204 and appends exactly one record at the end of events_store,
\* whatever members its JSON payload carries; and no step removes, reorders or changes the
\* records already stored.
C10_NewDeliveryAppended ==
    [][ /\ \A s \in Slots :
             ( /\ handlers[s].pc = "json"
               /\ handlers'[s].pc # "json"
               /\ ValidlySigned(handlers[s].req)
               /\ handlers[s].req.event \in AllowList
               /\ IsJsonObject(handlers[s].req.body)
               /\ Stored(handlers[s].req.delivery) = 0 )
             => ( /\ handlers'[s].status = 204
                  /\ Len(events_store') = Len(events_store) + 1
                  /\ events_store'[Len(events_store')].id
                        = handlers[s].req.delivery )
        /\ Len(events_store') >= Len(events_store)
        /\ SubSeq(events_store', 1, Len(events_store)) = events_store ]_vars

===========================================================================
